---- MODULE Spec2Model ----
(***************************************************************************)
(* A model of the reference dashboard (src/tools/dashboard/src/reference.rs)*)
(* of Kani/RMC: the hierarchy resolver (parse_hierarchy), the example      *)
(* locator (extract), the annotator (preprocess_examples), the single-path *)
(* tree constructor (tree_from_path) and the log parser (parse_log,        *)
(* parse_log_line), with the result tree of the dashboard module they use. *)
(*                                                                         *)
(* Rust strings are sequences of one-character strings, so that splitting, *)
(* parsing and formatting are computed, not assumed.                       *)
(***************************************************************************)
EXTENDS Integers, Sequences, FiniteSets, TLC

VARIABLES
    \* parse_log
    log,        \* the lines of the log file
    idx,        \* number of lines taken from the reader so far
    tests,      \* the running aggregate (local `tests`)
    lstatus,    \* "idle", "running", "done", or the panic that ended the run
    ret,        \* the tree parse_log returned, NoTree until it returns
    \* Tree::merge
    ma, mb, mc, \* three operand trees
    mres,       \* the merges computed from them, NoTree before
    \* tree_from_path
    tpath,      \* argument `path`
    tresult,    \* argument `result`
    tout,       \* what the call produced, NoTree before
    \* parse_hierarchy
    hdoc,       \* the summary document
    hevents,    \* the parser's events left after skip(n)
    hpos,       \* number of those events consumed
    hierarchy,  \* local `hierarchy`, a PathBuf as its components
    hmap,       \* local `map`
    hstatus,    \* "idle", "start", "walking", "done", "panic"
    \* extract
    xdirs,      \* the entries of gen_dir after rustdoc ran
    xleft,      \* the entries read_dir has not yet yielded
    xlast,      \* the entry taken last
    xpairs,     \* local `pairs`
    xfs,        \* the files copied under par_to
    xstatus,    \* "idle", "start", "listing", "done", or a panic
    \* preprocess_examples
    amd,        \* the lines of the markdown file the examples come from
    amap,       \* argument `map`: entries (path, line) -> to
    aleft,      \* entries the first loop has not yet visited
    aloop,      \* number of loop_tests the second loop has handled
    afs,        \* the files under src/test/ref: path -> lines
    astatus     \* "idle", "running", "done", "panic"

logVars == <<log, idx, tests, lstatus, ret>>
mergeVars == <<ma, mb, mc, mres>>
pathVars == <<tpath, tresult, tout>>
hierVars == <<hdoc, hevents, hpos, hierarchy, hmap, hstatus>>
exVars == <<xdirs, xleft, xlast, xpairs, xfs, xstatus>>
annVars == <<amd, amap, aleft, aloop, afs, astatus>>
vars == <<logVars, mergeVars, pathVars, hierVars, exVars, annVars>>

----------------------------------------------------------------------------
(* Strings *)

s_ref == <<"r", "e", "f">>
s_A == <<"A">>
s_B == <<"B">>
s_C == <<"C">>
s_x == <<"x">>
s_rs == <<"r", "s">>
s_ok == <<"o", "k">>
s_FAILED == <<"F", "A", "I", "L", "E", "D">>
s_okay == <<"o", "k", "a", "y">>

\* The separator of a log line, " [rmc] ".
LogSep == <<" ", "[", "r", "m", "c", "]", " ">>

\* The characters a test path is split on.
PathDelims == {"/", "."}

SubStr(s, from, to) == [i \in 1..(to - from + 1) |-> s[from + i - 1]]

StartsAt(s, pat, i) ==
    /\ i + Len(pat) - 1 <= Len(s)
    /\ \A j \in 1..Len(pat) : s[i + j - 1] = pat[j]

\* Position of the first occurrence of pat in s, 0 if there is none.
FindStr(s, pat) ==
    IF \E i \in 1..Len(s) : StartsAt(s, pat, i)
    THEN CHOOSE i \in 1..Len(s) :
            /\ StartsAt(s, pat, i)
            /\ \A k \in 1..(i - 1) : ~StartsAt(s, pat, k)
    ELSE 0

\* str::split(pat) for a non-empty string pattern: the pieces between the
\* non-overlapping matches, left to right; always at least one piece.
RECURSIVE SplitStr(_, _)
SplitStr(s, pat) ==
    LET i == FindStr(s, pat) IN
    IF i = 0 THEN <<s>>
    ELSE <<SubStr(s, 1, i - 1)>> \o SplitStr(SubStr(s, i + Len(pat), Len(s)), pat)

\* Position of the first character of s that is in delims, 0 if none.
FindChar(s, delims) ==
    IF \E i \in 1..Len(s) : s[i] \in delims
    THEN CHOOSE i \in 1..Len(s) :
            /\ s[i] \in delims
            /\ \A k \in 1..(i - 1) : s[k] \notin delims
    ELSE 0

\* str::split(&[chars]): the pieces between delimiter characters.
RECURSIVE SplitChars(_, _)
SplitChars(s, delims) ==
    LET i == FindChar(s, delims) IN
    IF i = 0 THEN <<s>>
    ELSE <<SubStr(s, 1, i - 1)>> \o SplitChars(SubStr(s, i + 1, Len(s)), delims)

Front(s) == SubSeq(s, 1, Len(s) - 1)
Last(s) == s[Len(s)]

----------------------------------------------------------------------------
(* The result tree (dashboard::Node, dashboard::Tree) *)

Node(name, num_pass, num_fail) ==
    [name |-> name, num_pass |-> num_pass, num_fail |-> num_fail]

Tree(data, children) == [data |-> data, children |-> children]

NoTree == [none |-> TRUE]

\* Index of the first child of cs named name, 0 if there is none.
Position(cs, name) ==
    IF \E i \in 1..Len(cs) : cs[i].data.name = name
    THEN CHOOSE i \in 1..Len(cs) :
            /\ cs[i].data.name = name
            /\ \A k \in 1..(i - 1) : cs[k].data.name # name
    ELSE 0

\* A faulty merge that keeps the left operand's counts.
merge_keep_left(l, r) ==
    IF l.data.name # r.data.name THEN NoTree
    ELSE Tree(l.data, l.children \o r.children)

\* Tree::merge(l, r): None (NoTree) when the root names differ; otherwise the
\* root with summed counts, each child of r merged into the child of l of the
\* same name, or appended when l has none.
RECURSIVE merge(_, _)
RECURSIVE MergeChildren(_, _)
MergeChildren(lcs, rcs) ==
    IF rcs = <<>> THEN lcs
    ELSE LET cnr == Head(rcs)
             i == Position(lcs, cnr.data.name)
         IN IF i = 0
            THEN MergeChildren(Append(lcs, cnr), Tail(rcs))
            ELSE MergeChildren([lcs EXCEPT ![i] = merge(lcs[i], cnr)], Tail(rcs))

merge(l, r) ==
    IF l.data.name # r.data.name THEN NoTree
    ELSE Tree(Node(l.data.name,
                   l.data.num_pass + r.data.num_pass,
                   l.data.num_fail + r.data.num_fail),
              MergeChildren(l.children, r.children))

----------------------------------------------------------------------------
(* tree_from_path *)

PanicEmptyPath == [panic |-> "path must contain at least 1 element"]

\* The loop of tree_from_path: each remaining segment, innermost first,
\* becomes the parent of the tree built so far and copies its counts.
RECURSIVE WrapPath(_, _)
WrapPath(path, tree) ==
    IF path = <<>> THEN tree
    ELSE WrapPath(Front(path),
                  Tree(Node(Last(path), tree.data.num_pass, tree.data.num_fail),
                       <<tree>>))

\* A faulty tree_from_path whose ancestors start with zero counts.
tree_from_path_zero(path, result) ==
    IF Len(path) = 0 THEN PanicEmptyPath
    ELSE LET leaf == Tree(Node(Last(path),
                               IF result THEN 1 ELSE 0,
                               IF result THEN 0 ELSE 1), <<>>)
             RECURSIVE Wrap0(_, _)
             Wrap0(p, t) ==
                IF p = <<>> THEN t
                ELSE Wrap0(Front(p), Tree(Node(Last(p), 0, 0), <<t>>))
         IN Wrap0(Front(path), leaf)

tree_from_path(path, result) ==
    IF Len(path) = 0 THEN PanicEmptyPath
    ELSE WrapPath(Front(path),
                  Tree(Node(Last(path),
                            IF result THEN 1 ELSE 0,
                            IF result THEN 0 ELSE 1), <<>>))

----------------------------------------------------------------------------
(* parse_log_line, parse_log *)

\* A faulty parse_log_line that keeps the extension as a segment.
parse_log_line_keep_ext(line) ==
    LET splits == SplitStr(line, LogSep) IN
    IF Len(splits) < 2 THEN [panic |-> "index out of bounds"]
    ELSE [ns |-> SplitChars(splits[2], PathDelims), l |-> (splits[1] = s_ok)]

\* parse_log_line: (segments, passed), or the panic of splits[1] when the
\* line holds no separator.
parse_log_line(line) ==
    LET splits == SplitStr(line, LogSep) IN
    IF Len(splits) < 2 THEN [panic |-> "index out of bounds"]
    ELSE [ns |-> Front(SplitChars(splits[2], PathDelims)),
          l |-> (splits[1] = s_ok)]

IsPanic(v) == "panic" \in DOMAIN v
IsNone(v) == "none" \in DOMAIN v

\* A faulty loop body that keeps the old aggregate when merge returns None.
parse_log_step_skip(t, line) ==
    LET pl == parse_log_line(line) IN
    IF IsPanic(pl) THEN pl
    ELSE LET tp == tree_from_path(pl.ns, pl.l) IN
         IF IsPanic(tp) THEN tp
         ELSE LET m == merge(t, tp) IN
              IF IsNone(m) THEN t ELSE m

\* The body of parse_log's loop: the new aggregate, or the panic that ends
\* the run (splits[1], the assertion of tree_from_path, unwrap of None).
parse_log_step(t, line) ==
    LET pl == parse_log_line(line) IN
    IF IsPanic(pl) THEN pl
    ELSE LET tp == tree_from_path(pl.ns, pl.l) IN
         IF IsPanic(tp) THEN tp
         ELSE LET m == merge(t, tp) IN
              IF IsNone(m) THEN [panic |-> "unwrap on None"] ELSE m

\* The aggregate parse_log starts from.
EmptyRoot == Tree(Node(s_ref, 0, 0), <<>>)

----------------------------------------------------------------------------
(* Inputs of the log parser *)

MaxLog == 3

RECURSIVE JoinPath(_)
JoinPath(segs) ==
    IF Len(segs) = 1 THEN segs[1]
    ELSE segs[1] \o <<"/">> \o JoinPath(Tail(segs))

\* A line as compiletest writes it: <status> [rmc] <seg>/.../<seg>.rs
FormatLine(st, segs) == st \o LogSep \o JoinPath(segs) \o <<".">> \o s_rs

Statuses == {s_ok, s_FAILED}
RefPaths == {<<s_ref, s_A>>, <<s_ref, s_A, s_B>>, <<s_ref, s_B>>}
OtherPaths == {<<s_x, s_A>>}
WellFormedRefLines == {FormatLine(st, p) : st \in Statuses, p \in RefPaths}
           \cup {FormatLine(s_okay, <<s_ref, s_B>>)}
WellFormedOtherLines == {FormatLine(s_ok, p) : p \in OtherPaths}
MalformedLines ==
    { s_ok \o <<" ">> \o JoinPath(<<s_ref, s_A>>) \o <<".">> \o s_rs,  \* no separator
      s_ok \o LogSep \o JoinPath(<<s_ref, s_A>>),                      \* no extension
      s_ok \o LogSep \o s_ref }                                        \* nothing left
LogLines == WellFormedRefLines \cup WellFormedOtherLines \cup MalformedLines

RECURSIVE SeqsUpTo(_, _)
SeqsUpTo(S, n) ==
    IF n = 0 THEN {<<>>}
    ELSE LET shorter == SeqsUpTo(S, n - 1) IN
         shorter \cup {Append(q, e) : q \in {r \in shorter : Len(r) = n - 1}, e \in S}

----------------------------------------------------------------------------
(* parse_log as a state machine: one step per line of the reader *)

LogIdle ==
    /\ log = <<>>
    /\ idx = 0
    /\ tests = NoTree
    /\ lstatus = "idle"
    /\ ret = NoTree

MergeIdle == ma = NoTree /\ mb = NoTree /\ mc = NoTree /\ mres = NoTree

PathIdle == tpath = <<>> /\ tresult = FALSE /\ tout = NoTree

EmptyMap == <<>>

HierIdle ==
    /\ hdoc = <<>> /\ hevents = <<>> /\ hpos = 0
    /\ hierarchy = <<>> /\ hmap = EmptyMap /\ hstatus = "idle"

ExIdle ==
    /\ xdirs = {} /\ xleft = {} /\ xlast = <<>>
    /\ xpairs = <<>> /\ xfs = EmptyMap /\ xstatus = "idle"

AnnIdle ==
    /\ amd = <<>> /\ amap = {} /\ aleft = {}
    /\ aloop = 0 /\ afs = EmptyMap /\ astatus = "idle"

LogInit ==
    /\ MergeIdle /\ PathIdle /\ HierIdle /\ ExIdle /\ AnnIdle
    /\ log \in SeqsUpTo(LogLines, MaxLog)
    /\ idx = 0
    /\ tests = EmptyRoot
    /\ lstatus = "running"
    /\ ret = NoTree

LogLine ==
    /\ lstatus = "running"
    /\ idx < Len(log)
    /\ LET r == parse_log_step(tests, log[idx + 1]) IN
        /\ idx' = idx + 1
        /\ tests' = IF IsPanic(r) THEN NoTree ELSE r
        /\ lstatus' = IF IsPanic(r) THEN r.panic ELSE "running"
    /\ UNCHANGED <<log, ret, mergeVars, pathVars, hierVars, exVars, annVars>>

LogReturn ==
    /\ lstatus = "running"
    /\ idx = Len(log)
    /\ lstatus' = "done"
    /\ ret' = tests
    /\ UNCHANGED <<log, idx, tests, mergeVars, pathVars, hierVars, exVars, annVars>>

LogNext == LogLine \/ LogReturn

SpecLog == LogInit /\ [][LogNext]_vars

----------------------------------------------------------------------------
(* Reading a result tree *)

RECURSIVE SumOver(_, _)
SumOver(cs, field) ==
    IF cs = <<>> THEN 0 ELSE Head(cs).data[field] + SumOver(Tail(cs), field)

\* Every node that has children carries the sums of its children's counts.
RECURSIVE CountsAreChildSums(_)
CountsAreChildSums(t) ==
    /\ t.children # <<>> =>
        /\ t.data.num_pass = SumOver(t.children, "num_pass")
        /\ t.data.num_fail = SumOver(t.children, "num_fail")
    /\ \A i \in 1..Len(t.children) : CountsAreChildSums(t.children[i])

\* No two siblings share a name, anywhere in the tree.
RECURSIVE UniqueSiblings(_)
UniqueSiblings(t) ==
    /\ \A i, j \in 1..Len(t.children) :
        t.children[i].data.name = t.children[j].data.name => i = j
    /\ \A i \in 1..Len(t.children) : UniqueSiblings(t.children[i])

\* The nodes of a tree as <<path from the root, passCount, failCount>>.
RECURSIVE Entries(_, _)
Entries(t, above) ==
    LET here == Append(above, t.data.name) IN
    {<<here, t.data.num_pass, t.data.num_fail>>}
        \cup UNION {Entries(t.children[i], here) : i \in 1..Len(t.children)}

IsPrefix(p, q) == Len(p) <= Len(q) /\ \A i \in 1..Len(p) : p[i] = q[i]

\* What a well-formed line says, read off the way the line was written.
AllStatuses == Statuses \cup {s_okay}
AllPaths == RefPaths \cup OtherPaths
IsWellFormed(line) == \E st \in AllStatuses, p \in AllPaths : line = FormatLine(st, p)
WrittenStatus(line) ==
    CHOOSE st \in AllStatuses : \E p \in AllPaths : line = FormatLine(st, p)
WrittenPath(line) ==
    CHOOSE p \in AllPaths : \E st \in AllStatuses : line = FormatLine(st, p)

LogIsWellFormedRef == \A i \in 1..Len(log) : log[i] \in WellFormedRefLines

\* Lines of the log that pass through the node at path p, by outcome.
OkThrough(p) ==
    Cardinality({i \in 1..Len(log) :
        WrittenStatus(log[i]) = s_ok /\ IsPrefix(p, WrittenPath(log[i]))})
NotOkThrough(p) ==
    Cardinality({i \in 1..Len(log) :
        WrittenStatus(log[i]) # s_ok /\ IsPrefix(p, WrittenPath(log[i]))})
TouchedPaths ==
    {<<s_ref>>} \cup
    UNION {{SubSeq(WrittenPath(log[i]), 1, n) : n \in 1..Len(WrittenPath(log[i]))} :
              i \in 1..Len(log)}

----------------------------------------------------------------------------
(* Claims about the log parser, checked under SpecLog *)

\* C1: after any sequence of well-formed lines rooted at "ref" has been
\* folded in, every node of the aggregate that has children carries the sum
\* of its children's passCounts and of their failCounts.
C1_ParentCountsAreChildSums ==
    (/\ lstatus \in {"running", "done"}
     /\ \A i \in 1..idx : log[i] \in WellFormedRefLines)
        => CountsAreChildSums(tests)

\* C2: when parse_log returns on a log of well-formed lines rooted at "ref",
\* the aggregate has exactly one node per path a line passes through (and the
\* root), each with passCount = number of "ok" lines through it and failCount
\* = number of other lines through it; the root's total is the line count.
C2_CountsMatchLines ==
    (lstatus = "done" /\ LogIsWellFormedRef) =>
        /\ UniqueSiblings(ret)
        /\ Entries(ret, <<>>) =
            {<<p, OkThrough(p), NotOkThrough(p)>> : p \in TouchedPaths}
        /\ ret.data.num_pass + ret.data.num_fail = Len(log)

\* C2 witness: a FAILED line and then an ok line for ref/A/B.rs, with a third
\* line after them, have been folded and returned.
C2_Witness ==
    /\ lstatus = "done"
    /\ Len(log) = 3
    /\ log[1] = FormatLine(s_FAILED, <<s_ref, s_A, s_B>>)
    /\ log[2] = FormatLine(s_ok, <<s_ref, s_A, s_B>>)
    /\ log[3] = FormatLine(s_ok, <<s_ref, s_B>>)
    /\ <<<<s_ref, s_A, s_B>>, 1, 1>> \in Entries(ret, <<>>)
    /\ ret.data.num_pass = 2 /\ ret.data.num_fail = 1

\* C6: every line read is processed, and a malformed line aborts the run at
\* that line: it is never folded into the aggregate.
C6_MalformedIsFatal ==
    \A i \in 1..idx :
        ~IsWellFormed(log[i]) =>
            /\ lstatus \notin {"running", "done"}
            /\ idx = i

\* C7: a well-formed line whose first segment is not "ref" ends the run at
\* that line with the failed unwrap of merge's None, and nothing is returned;
\* while running, merging the aggregate with such a line's tree yields None.
C7_ForeignRootAborts ==
    /\ \A i \in 1..idx :
        log[i] \in WellFormedOtherLines =>
            /\ lstatus = "unwrap on None"
            /\ idx = i
            /\ IsNone(ret) /\ IsNone(tests)
    /\ lstatus = "running" =>
        \A p \in OtherPaths : IsNone(merge(tests, tree_from_path(p, TRUE)))

\* C7 witness: the second line is rooted at "x" and the run stopped there.
C7_Witness ==
    /\ idx = 2
    /\ log[1] \in WellFormedRefLines
    /\ log[2] \in WellFormedOtherLines
    /\ lstatus = "unwrap on None"
    /\ IsNone(ret)

----------------------------------------------------------------------------
(* Tree::merge applied to three trees *)

MaxFold == 1

MergePaths == {<<s_ref, s_A>>, <<s_ref, s_A, s_B>>, <<s_ref, s_A, s_C>>, <<s_ref, s_B>>}

\* Single-path trees as parse_log builds them, one of them rooted elsewhere.
Chains ==
    {tree_from_path(p, TRUE) : p \in MergePaths}
        \cup {tree_from_path(<<s_ref, s_A, s_B>>, FALSE), tree_from_path(<<s_x, s_A>>, TRUE)}

\* The trees obtained by merging up to n further single-path trees into a
\* single-path tree or into the empty root.
RECURSIVE FoldedTrees(_)
FoldedTrees(n) ==
    IF n = 0 THEN Chains \cup {EmptyRoot}
    ELSE LET smaller == FoldedTrees(n - 1) IN
         smaller \cup {merge(t, c) : t \in {u \in smaller : u.data.name = s_ref},
                                     c \in {u \in Chains : u.data.name = s_ref}}

\* merge on Option<Tree>, as a caller chaining two merges would use it.
MergeOpt(l, r) == IF IsNone(l) \/ IsNone(r) THEN NoTree ELSE merge(l, r)

MergeInit ==
    /\ LogIdle /\ PathIdle /\ HierIdle /\ ExIdle /\ AnnIdle
    /\ ma \in FoldedTrees(MaxFold)
    /\ mb \in FoldedTrees(MaxFold)
    /\ mc \in Chains \cup {EmptyRoot}
    /\ mres = NoTree

\* The operands share their root name: all four merges produce a tree.
MergeApply ==
    /\ IsNone(mres)
    /\ ma.data.name = mb.data.name /\ mb.data.name = mc.data.name
    /\ mres' = [ab |-> merge(ma, mb), ba |-> merge(mb, ma),
                ab_c |-> merge(merge(ma, mb), mc),
                a_bc |-> merge(ma, merge(mb, mc))]
    /\ UNCHANGED <<ma, mb, mc, logVars, pathVars, hierVars, exVars, annVars>>

\* Some root name differs: a merge returns None.
MergeMismatch ==
    /\ IsNone(mres)
    /\ ~(ma.data.name = mb.data.name /\ mb.data.name = mc.data.name)
    /\ mres' = [ab |-> merge(ma, mb), ba |-> merge(mb, ma),
                ab_c |-> MergeOpt(merge(ma, mb), mc),
                a_bc |-> MergeOpt(ma, merge(mb, mc))]
    /\ UNCHANGED <<ma, mb, mc, logVars, pathVars, hierVars, exVars, annVars>>

MergeNext == MergeApply \/ MergeMismatch

SpecMerge == MergeInit /\ [][MergeNext]_vars

\* A tree with the order of siblings forgotten.
RECURSIVE Canon(_)
Canon(t) ==
    [data |-> t.data, children |-> {Canon(t.children[i]) : i \in 1..Len(t.children)}]

ChildNames(t) == {t.children[i].data.name : i \in 1..Len(t.children)}

\* C3: for trees a, b, c with the same root name, merge(a,b) carries the sums
\* of the operands' passCounts and failCounts and the union of their child
\* names; merge(a,b) and merge(b,a) agree, and merge(merge(a,b),c) and
\* merge(a,merge(b,c)) agree, up to the order of siblings.
C3_MergeCommAssoc ==
    (/\ ~IsNone(mres)
     /\ ma.data.name = mb.data.name /\ mb.data.name = mc.data.name) =>
        /\ mres.ab.data.num_pass = ma.data.num_pass + mb.data.num_pass
        /\ mres.ab.data.num_fail = ma.data.num_fail + mb.data.num_fail
        /\ ChildNames(mres.ab) = ChildNames(ma) \cup ChildNames(mb)
        /\ UniqueSiblings(mres.ab)
        /\ Canon(mres.ab) = Canon(mres.ba)
        /\ Canon(mres.ab_c) = Canon(mres.a_bc)
        /\ mres.ab_c.data.num_pass = ma.data.num_pass + mb.data.num_pass + mc.data.num_pass
        /\ mres.ab_c.data.num_fail = ma.data.num_fail + mb.data.num_fail + mc.data.num_fail

\* C3 witness: operands with different first children were merged, so the
\* two orders give different sibling orders.
C3_Witness ==
    /\ ~IsNone(mres)
    /\ ~IsNone(mres.ab) /\ ~IsNone(mres.ab_c)
    /\ mres.ab # mres.ba
    /\ Len(mres.ab_c.children) >= 2
    /\ mc.children # <<>>

----------------------------------------------------------------------------
(* tree_from_path applied to a path and an outcome *)

MaxDepth == 3

SegmentNames == {s_ref, s_A, s_B}

PathInit ==
    /\ LogIdle /\ MergeIdle /\ HierIdle /\ ExIdle /\ AnnIdle
    /\ tpath \in SeqsUpTo(SegmentNames, MaxDepth)
    /\ tresult \in BOOLEAN
    /\ tout = NoTree

\* The call returns a tree.
TfpBuild ==
    /\ IsNone(tout)
    /\ Len(tpath) > 0
    /\ tout' = tree_from_path(tpath, tresult)
    /\ UNCHANGED <<tpath, tresult, logVars, mergeVars, hierVars, exVars, annVars>>

\* The assertion on the path's length fails.
TfpPanic ==
    /\ IsNone(tout)
    /\ Len(tpath) = 0
    /\ tout' = tree_from_path(tpath, tresult)
    /\ UNCHANGED <<tpath, tresult, logVars, mergeVars, hierVars, exVars, annVars>>

PathNext == TfpBuild \/ TfpPanic

SpecPath == PathInit /\ [][PathNext]_vars

\* The node at depth d (root = 0) of a chain, following first children.
RECURSIVE Descend(_, _)
Descend(t, d) == IF d = 0 THEN t ELSE Descend(t.children[1], d - 1)

RECURSIVE NodeCount(_)
NodeCount(t) ==
    LET RECURSIVE Sum(_)
        Sum(cs) == IF cs = <<>> THEN 0 ELSE NodeCount(Head(cs)) + Sum(Tail(cs))
    IN 1 + Sum(t.children)

\* C4: for a non-empty path s and outcome p, tree_from_path returns a chain of
\* exactly Len(s) nodes: the node at depth i is named s[i+1], has one child
\* unless it is the last, which has none, and every node counts (1,0) if p
\* and (0,1) otherwise.
C4_ChainOfPath ==
    (Len(tpath) > 0 /\ ~IsNone(tout)) =>
        /\ ~IsPanic(tout)
        /\ NodeCount(tout) = Len(tpath)
        /\ \A d \in 0..(Len(tpath) - 1) :
            LET n == Descend(tout, d) IN
            /\ n.data.name = tpath[d + 1]
            /\ n.data.num_pass = (IF tresult THEN 1 ELSE 0)
            /\ n.data.num_fail = (IF tresult THEN 0 ELSE 1)
            /\ Len(n.children) = (IF d = Len(tpath) - 1 THEN 0 ELSE 1)

\* C4 witness: a failing outcome on a three-segment path was built.
C4_Witness ==
    /\ tpath = <<s_ref, s_A, s_B>>
    /\ tresult = FALSE
    /\ ~IsNone(tout) /\ ~IsPanic(tout)
    /\ tout.data = Node(s_ref, 0, 1)

----------------------------------------------------------------------------
(* parse_hierarchy *)

s_src == <<"s", "r", "c">>
s_test == <<"t", "e", "s", "t">>
s_doc == <<"d", "o", "c">>
s_reference == <<"r", "e", "f", "e", "r", "e", "n", "c", "e">>
s_Introduction == <<"I", "n", "t", "r", "o", "d", "u", "c", "t", "i", "o", "n">>
s_intro_md == <<"i", "n", "t", "r", "o", "d", "u", "c", "t", "i", "o", "n", ".", "m", "d">>
s_a_md == <<"a", ".", "m", "d">>
s_b_md == <<"s", "u", "b", "/", "b", ".", "m", "d">>
s_c_md == <<"c", ".", "m", "d">>
s_d_md == <<"d", ".", "m", "d">>
s_D == <<"D">>
s_note == <<"n", "o", "t", "e">>
s_Title == <<"T", "h", "e", " ", "R", "u", "s", "t", " ", "R", "e", "f", "e", "r", "e", "n", "c", "e">>
s_OtherTitle == <<"T", "h", "e", " ", "B", "o", "o", "k">>

\* summary_path.parent() for src/doc/reference/src/SUMMARY.md
SummaryDir == <<s_src, s_doc, s_reference, s_src>>

\* The root of the hierarchical path, ["src", "test", "ref"].
RootPrefix == <<s_src, s_test, s_ref>>

\* The opening the summary must start with: title, then the introduction link.
StartHead == [title |-> s_Title, link |-> s_Introduction, dest |-> s_intro_md]

\* pulldown_cmark events.
EvStart(tag, dest) == [ev |-> "Start", tag |-> tag, text |-> <<>>, dest |-> dest]
EvEnd(tag, dest) == [ev |-> "End", tag |-> tag, text |-> <<>>, dest |-> dest]
EvText(text) == [ev |-> "Text", tag |-> "", text |-> text, dest |-> <<>>]

\* Events of "# <title>\n\n[<link>](<dest>)".
HeadEvents(head) ==
    << EvStart("Heading", <<>>), EvText(head.title), EvEnd("Heading", <<>>),
       EvStart("Paragraph", <<>>), EvStart("Link", head.dest), EvText(head.link),
       EvEnd("Link", head.dest), EvEnd("Paragraph", <<>>) >>

\* Events of a (tight) list item: "- [title](dest)" for kind "link",
\* "- [title](dest) note" for "linknote", "- title" for "plain", followed by
\* the item's nested list.
RECURSIVE ItemEvents(_)
RECURSIVE ItemsEvents(_)
ItemsEvents(items) ==
    IF items = <<>> THEN <<>> ELSE ItemEvents(Head(items)) \o ItemsEvents(Tail(items))

ListEvents(items) ==
    IF items = <<>> THEN <<>>
    ELSE <<EvStart("List", <<>>)>> \o ItemsEvents(items) \o <<EvEnd("List", <<>>)>>

ItemEvents(item) ==
    <<EvStart("Item", <<>>)>>
    \o (IF item.kind = "plain" THEN <<EvText(item.title)>>
        ELSE <<EvStart("Link", item.dest), EvText(item.title), EvEnd("Link", item.dest)>>)
    \o (IF item.kind = "linknote" THEN <<EvText(s_note)>> ELSE <<>>)
    \o ListEvents(item.kids)
    \o <<EvEnd("Item", <<>>)>>

\* Parser::new(&summary) on a summary document.
DocEvents(doc) == HeadEvents(doc.head) \o ListEvents(doc.items)

\* PathBuf::push of a relative string: its components are appended.
NonEmpty(pieces) == SelectSeq(pieces, LAMBDA c : c # <<>>)
PathPush(path, text) == path \o NonEmpty(SplitChars(text, {"/"}))

\* PathBuf::pop: drops the last component, does nothing on the empty path.
PathPop(path) == IF path = <<>> THEN path ELSE Front(path)

\* HashMap::insert
MapInsert(m, k, v) == [x \in DOMAIN m \cup {k} |-> IF x = k THEN v ELSE m[x]]

\* A faulty loop body that never pops a finished item.
handle_event_nopop(st, e) ==
    IF e.ev = "End" /\ e.tag = "Link"
    THEN [st EXCEPT !.map = MapInsert(st.map, SummaryDir \o SplitChars(e.dest, {"/"}),
                                      st.hierarchy)]
    ELSE IF e.ev = "Text"
    THEN [st EXCEPT !.hierarchy = PathPush(st.hierarchy, e.text)]
    ELSE st

\* The body of parse_hierarchy's loop on one event; st holds hierarchy and map.
handle_event(st, e) ==
    IF e.ev = "End" /\ e.tag = "Item"
    THEN [st EXCEPT !.hierarchy = PathPop(st.hierarchy)]
    ELSE IF e.ev = "End" /\ e.tag = "Link"
    THEN [st EXCEPT !.map = MapInsert(st.map, SummaryDir \o SplitChars(e.dest, {"/"}),
                                      st.hierarchy)]
    ELSE IF e.ev = "Text"
    THEN [st EXCEPT !.hierarchy = PathPush(st.hierarchy, e.text)]
    ELSE st

(* Inputs: summary documents *)

MaxItems == 2

ItemKinds == {"link", "linknote", "plain"}
DestOf(title) ==
    IF title = s_A THEN s_a_md
    ELSE IF title = s_B THEN s_b_md
    ELSE IF title = s_C THEN s_c_md
    ELSE s_d_md
MkItem(kind, title, kids) ==
    [kind |-> kind, title |-> title,
     dest |-> IF kind = "plain" THEN <<>> ELSE DestOf(title), kids |-> kids]

SubItems ==
    {MkItem(k, s_B, <<>>) : k \in {"link", "plain"}}
        \cup {MkItem("link", s_B, <<MkItem("link", s_D, <<>>)>>)}
TopItems ==
    {MkItem(k, s_A, kids) : k \in ItemKinds, kids \in {<<>>} \cup {<<c>> : c \in SubItems}}
        \cup {MkItem(k, s_C, <<>>) : k \in {"link", "linknote"}}
Docs ==
    {[head |-> StartHead, items |-> l] : l \in SeqsUpTo(TopItems, MaxItems)}
        \cup {[head |-> [StartHead EXCEPT !.title = s_OtherTitle], items |-> <<>>]}

HierInit ==
    /\ LogIdle /\ MergeIdle /\ PathIdle /\ ExIdle /\ AnnIdle
    /\ hdoc \in Docs
    /\ hevents = <<>> /\ hpos = 0
    /\ hierarchy = <<>> /\ hmap = EmptyMap
    /\ hstatus = "start"

\* Lines 25-36: the check of the opening, skip(n), the introduction's entry.
HierOpen ==
    /\ hstatus = "start"
    /\ hdoc.head = StartHead
    /\ LET n == Len(HeadEvents(StartHead))
           all == DocEvents(hdoc)
       IN hevents' = SubSeq(all, n + 1, Len(all))
    /\ hpos' = 0
    /\ hierarchy' = RootPrefix
    /\ hmap' = MapInsert(EmptyMap, Append(SummaryDir, s_intro_md),
                         Append(RootPrefix, s_Introduction))
    /\ hstatus' = "walking"
    /\ UNCHANGED <<hdoc, logVars, mergeVars, pathVars, exVars, annVars>>

\* The assertion on the start of the summary fails.
HierBadStart ==
    /\ hstatus = "start"
    /\ hdoc.head # StartHead
    /\ hstatus' = "panic"
    /\ UNCHANGED <<hdoc, hevents, hpos, hierarchy, hmap, logVars, mergeVars, pathVars, exVars, annVars>>

HierStep(e) ==
    LET st == handle_event([hierarchy |-> hierarchy, map |-> hmap], e) IN
    /\ hpos' = hpos + 1
    /\ hierarchy' = st.hierarchy
    /\ hmap' = st.map
    /\ UNCHANGED <<hdoc, hevents, hstatus, logVars, mergeVars, pathVars, exVars, annVars>>

NextEvent == hevents[hpos + 1]
Walking == hstatus = "walking" /\ hpos < Len(hevents)

HierEndItem == Walking /\ NextEvent.ev = "End" /\ NextEvent.tag = "Item" /\ HierStep(NextEvent)
HierEndLink == Walking /\ NextEvent.ev = "End" /\ NextEvent.tag = "Link" /\ HierStep(NextEvent)
HierText == Walking /\ NextEvent.ev = "Text" /\ HierStep(NextEvent)
HierOther ==
    /\ Walking
    /\ NextEvent.ev # "Text"
    /\ ~(NextEvent.ev = "End" /\ NextEvent.tag \in {"Item", "Link"})
    /\ HierStep(NextEvent)

HierReturn ==
    /\ hstatus = "walking"
    /\ hpos = Len(hevents)
    /\ hstatus' = "done"
    /\ UNCHANGED <<hdoc, hevents, hpos, hierarchy, hmap, logVars, mergeVars, pathVars, exVars, annVars>>

HierNext ==
    \/ HierOpen \/ HierBadStart
    \/ HierEndItem \/ HierEndLink \/ HierText \/ HierOther
    \/ HierReturn

SpecHier == HierInit /\ [][HierNext]_vars

----------------------------------------------------------------------------
(* Claims about parse_hierarchy, checked under SpecHier *)

\* The mapping read off the nested list itself: each link's target maps to the
\* root prefix and the titles of the items around it, outermost first, ending
\* with its own title; a later entry for the same target replaces an earlier.
RECURSIVE ExpectedItems(_, _, _)
ExpectedItems(items, above, m) ==
    IF items = <<>> THEN m
    ELSE LET it == Head(items)
             here == Append(above, it.title)
             own == MapInsert(m, SummaryDir \o SplitChars(it.dest, {"/"}), here)
         IN ExpectedItems(Tail(items), above, ExpectedItems(it.kids, here, own))

ExpectedMap(doc) ==
    ExpectedItems(doc.items, RootPrefix,
                  MapInsert(EmptyMap, Append(SummaryDir, s_intro_md),
                            Append(RootPrefix, s_Introduction)))

\* Every item of the list, at every depth, is a link and nothing else.
RECURSIVE LinksOnly(_)
LinksOnly(items) ==
    \A i \in 1..Len(items) : items[i].kind = "link" /\ LinksOnly(items[i].kids)

\* C5: on an index that is a nested list of links, parse_hierarchy returns the
\* map that sends the introduction to root prefix + Introduction and every
\* link target to the root prefix followed by the titles of its enclosing
\* items, outermost first, and its own title; an item after a finished item
\* carries none of the finished item's titles.
C5_HierarchyOfNestedLinks ==
    (hstatus = "done" /\ LinksOnly(hdoc.items)) => hmap = ExpectedMap(hdoc)

\* C5 witness: - [A](a.md) with sub-item - [B](sub/b.md), then - [C](c.md).
C5_Witness ==
    /\ hstatus = "done"
    /\ Len(hdoc.items) = 2
    /\ hdoc.items[1] = MkItem("link", s_A, <<MkItem("link", s_B, <<>>)>>)
    /\ hdoc.items[2] = MkItem("link", s_C, <<>>)
    /\ hmap[Append(SummaryDir, s_intro_md)] = Append(RootPrefix, s_Introduction)
    /\ hmap[Append(SummaryDir, s_a_md)] = Append(RootPrefix, s_A)
    /\ hmap[SummaryDir \o <<<<"s", "u", "b">>, <<"b", ".", "m", "d">>>>] =
            RootPrefix \o <<s_A, s_B>>
    /\ hmap[Append(SummaryDir, s_c_md)] = Append(RootPrefix, s_C)

\* Whether event number i of the walk lies between a link's start and end.
InsideLink(i) ==
    Cardinality({k \in 1..(i - 1) : hevents[k].ev = "Start" /\ hevents[k].tag = "Link"})
        > Cardinality({k \in 1..(i - 1) : hevents[k].ev = "End" /\ hevents[k].tag = "Link"})

\* C10: during the walk the stack changes only in two ways: a text event
\* inside a link pushes its text as one segment, a list-item-close pops one
\* segment; every other event, text outside a link included, leaves it as is.
C10_StackFrame ==
    [][(hstatus = "walking" /\ hpos' = hpos + 1) =>
        LET e == hevents[hpos + 1] IN
        IF e.ev = "Text" /\ InsideLink(hpos + 1)
        THEN hierarchy' = Append(hierarchy, e.text)
        ELSE IF e.ev = "End" /\ e.tag = "Item"
        THEN hierarchy' = Front(hierarchy)
        ELSE hierarchy' = hierarchy]_vars

----------------------------------------------------------------------------
(* extract: the walk over the scratch directory, lines 126-151 *)

DecimalDigits == <<"0", "1", "2", "3", "4", "5", "6", "7", "8", "9">>
IsDigit(c) == \E i \in 1..10 : DecimalDigits[i] = c
DigitValue(c) == (CHOOSE i \in 1..10 : DecimalDigits[i] = c) - 1

ParseError == [error |-> "invalid digit found in string"]
IsParseError(v) == "error" \in DOMAIN v

RECURSIVE DigitsValue(_)
DigitsValue(s) ==
    IF s = <<>> THEN 0 ELSE 10 * DigitsValue(Front(s)) + DigitValue(Last(s))

\* str::parse::<usize>: an optional "+", then one or more decimal digits;
\* anything else is an error.
ParseUsize(s) ==
    LET digits == IF s # <<>> /\ s[1] = "+" THEN Tail(s) ELSE s IN
    IF digits = <<>> \/ \E i \in 1..Len(digits) : ~IsDigit(digits[i])
    THEN ParseError
    ELSE [value |-> DigitsValue(digits)]

\* format!("{}", n) for an unsigned number.
RECURSIVE ToDecimal(_)
ToDecimal(n) ==
    IF n < 10 THEN <<DecimalDigits[n + 1]>>
    ELSE Append(ToDecimal(n \div 10), DecimalDigits[(n % 10) + 1])

\* Position of the last occurrence of character c in s, 0 if there is none.
RFindChar(s, c) ==
    IF \E i \in 1..Len(s) : s[i] = c
    THEN CHOOSE i \in 1..Len(s) : s[i] = c /\ \A k \in (i + 1)..Len(s) : s[k] # c
    ELSE 0

\* str::rsplitn(n, c): at most n pieces, taken from the right; the last piece
\* returned is the unsplit rest.
RECURSIVE RSplitN(_, _, _)
RSplitN(s, n, c) ==
    LET i == RFindChar(s, c) IN
    IF n <= 1 \/ i = 0 THEN <<s>>
    ELSE <<SubStr(s, i + 1, Len(s))>> \o RSplitN(SubStr(s, 1, i - 1), n - 1, c)

\* str::splitn(n, c): at most n pieces, taken from the left.
RECURSIVE SplitN(_, _, _)
SplitN(s, n, c) ==
    LET i == FindChar(s, {c}) IN
    IF n <= 1 \/ i = 0 THEN <<s>>
    ELSE <<SubStr(s, 1, i - 1)>> \o SplitN(SubStr(s, i + 1, Len(s)), n - 1, c)

s_dot_rs == <<".", "r", "s">>
s_chapter_md == <<"c", "h", "a", "p", "t", "e", "r", ".", "m", "d">>

\* par_from and par_to of the call.
ParFrom == <<s_src, s_doc, s_reference, s_src, s_chapter_md>>
ParTo == <<s_src, s_test, s_ref, s_A>>

\* A faulty field selection that splits from the left.
line_of_dir_from_left(name) ==
    LET splits == SplitN(name, 3, "_") IN
    IF Len(splits) < 2 THEN [panic |-> "index out of bounds"]
    ELSE IF IsParseError(ParseUsize(splits[2])) THEN [panic |-> "unwrap on Err"]
    ELSE [line |-> ParseUsize(splits[2]).value]

\* Lines 140-142: the line number in a subdirectory's name, or the panic of
\* splits[1] or of parse().unwrap().
line_of_dir(name) ==
    LET splits == RSplitN(name, 3, "_") IN
    IF Len(splits) < 2 THEN [panic |-> "index out of bounds"]
    ELSE IF IsParseError(ParseUsize(splits[2])) THEN [panic |-> "unwrap on Err"]
    ELSE [line |-> ParseUsize(splits[2]).value]

\* Line 143: par_to.join(format!("{}.rs", line))
dest_of_line(line) == Append(ParTo, ToDecimal(line) \o s_dot_rs)

(* Inputs: what rustdoc leaves in gen_dir *)

DirNames ==
    { <<"c", "h", "a", "p", "t", "e", "r", "_", "m", "d", "_", "1", "2", "_", "0">>,
      <<"c", "h", "a", "p", "t", "e", "r", "_", "m", "d", "_", "7", "_", "0">>,
      <<"c", "h", "a", "p", "t", "e", "r", "_", "m", "d", "_", "x", "_", "0">>,
      <<"c", "h", "a", "p", "t", "e", "r">> }

\* A subdirectory holds the extracted file, or nothing when the example is
\* marked "ignore".
DirEntries == {[name |-> n, files |-> f] : n \in DirNames, f \in {{}, {"rust_out"}}}

Listings ==
    {l \in SUBSET DirEntries : \A d, e \in l : d.name = e.name => d = e}

ExInit ==
    /\ LogIdle /\ MergeIdle /\ PathIdle /\ HierIdle /\ AnnIdle
    /\ xdirs = {} /\ xleft = {} /\ xlast = <<>>
    /\ xpairs = <<>> /\ xfs = EmptyMap
    /\ xstatus = "start"

\* Lines 105-126: rustdoc runs and fills gen_dir; read_dir starts.
ExSpawn ==
    /\ xstatus = "start"
    /\ \E l \in Listings : xdirs' = l /\ xleft' = l
    /\ xstatus' = "listing"
    /\ UNCHANGED <<xlast, xpairs, xfs, logVars, mergeVars, pathVars, hierVars, annVars>>

\* Lines 131-132: a subdirectory without entries is passed over.
ExSkipEmpty ==
    /\ xstatus = "listing"
    /\ \E d \in xleft :
        /\ d.files = {}
        /\ xleft' = xleft \ {d}
        /\ xlast' = d
    /\ UNCHANGED <<xdirs, xpairs, xfs, xstatus, logVars, mergeVars, pathVars, hierVars, annVars>>

\* Lines 139-146: the file of a non-empty subdirectory is copied and recorded.
ExCopy ==
    /\ xstatus = "listing"
    /\ \E d \in xleft : \E from \in d.files :
        LET r == line_of_dir(d.name) IN
        /\ ~IsPanic(r)
        /\ xleft' = xleft \ {d}
        /\ xlast' = d
        /\ xfs' = MapInsert(xfs, dest_of_line(r.line), <<d.name, from>>)
        /\ xpairs' = Append(xpairs, [example |-> [path |-> ParFrom, line |-> r.line],
                                     to |-> dest_of_line(r.line)])
    /\ UNCHANGED <<xdirs, xstatus, logVars, mergeVars, pathVars, hierVars, annVars>>

\* Lines 141-142: the name of a non-empty subdirectory does not parse.
ExPanic ==
    /\ xstatus = "listing"
    /\ \E d \in xleft :
        LET r == line_of_dir(d.name) IN
        /\ d.files # {}
        /\ IsPanic(r)
        /\ xleft' = xleft \ {d}
        /\ xlast' = d
        /\ xstatus' = r.panic
    /\ UNCHANGED <<xdirs, xpairs, xfs, logVars, mergeVars, pathVars, hierVars, annVars>>

\* Lines 150-151: gen_dir is removed and pairs returned.
ExReturn ==
    /\ xstatus = "listing"
    /\ xleft = {}
    /\ xstatus' = "done"
    /\ UNCHANGED <<xdirs, xleft, xlast, xpairs, xfs, logVars, mergeVars, pathVars, hierVars, annVars>>

ExNext == ExSpawn \/ ExSkipEmpty \/ ExCopy \/ ExPanic \/ ExReturn

SpecExtract == ExInit /\ [][ExNext]_vars

\* The second-to-last of the fields a name has between its underscores.
Fields(name) == SplitChars(name, {"_"})
LineField(name) == Fields(name)[Len(Fields(name)) - 1]

\* <source-identifier>_<line>_<sequence>, the line in decimal digits.
IsExampleDirName(name) ==
    /\ Len(Fields(name)) >= 3
    /\ LineField(name) # <<>>
    /\ \A i \in 1..Len(LineField(name)) : IsDigit(LineField(name)[i])

NonEmptyDirs == {d \in xdirs : d.files # {}}

PairMatches(pair, d) ==
    /\ pair.example.path = ParFrom
    /\ ToDecimal(pair.example.line) = LineField(d.name)
    /\ pair.to = Append(ParTo, LineField(d.name) \o s_dot_rs)

\* C9: when the non-empty subdirectories are named
\* <source-identifier>_<line>_<sequence>, extract returns one pair per
\* non-empty subdirectory and none for an empty one, each with the line of the
\* second-to-last field and destination <par_to>/<line>.rs; no empty
\* subdirectory, whatever its name, ends the run.
C9_OnePairPerNonEmptyDir ==
    /\ (\A d \in NonEmptyDirs : IsExampleDirName(d.name)) =>
        /\ xstatus \in {"start", "listing", "done"}
        /\ xstatus = "done" =>
            /\ Len(xpairs) = Cardinality(NonEmptyDirs)
            /\ \A d \in NonEmptyDirs : \E k \in 1..Len(xpairs) : PairMatches(xpairs[k], d)
            /\ \A k \in 1..Len(xpairs) : \E d \in NonEmptyDirs : PairMatches(xpairs[k], d)
    /\ xstatus \notin {"start", "listing", "done"} => xlast.files # {}

\* C9 witness: chapter_md_12_0 held a file, chapter_md_7_0 and the
\* unparsable chapter were empty; one pair, line 12, <par_to>/12.rs.
C9_Witness ==
    /\ xstatus = "done"
    /\ xdirs = {[name |-> <<"c", "h", "a", "p", "t", "e", "r", "_", "m", "d", "_", "1", "2", "_", "0">>, files |-> {"rust_out"}],
                [name |-> <<"c", "h", "a", "p", "t", "e", "r", "_", "m", "d", "_", "7", "_", "0">>, files |-> {}],
                [name |-> <<"c", "h", "a", "p", "t", "e", "r">>, files |-> {}]}
    /\ Len(xpairs) = 1
    /\ xpairs[1].example.line = 12
    /\ xpairs[1].to = Append(ParTo, <<"1", "2", ".", "r", "s">>)

----------------------------------------------------------------------------
(* preprocess_examples, prepend_text *)

\* The markers looked for on the line that opens an example's code block.
m_edition2015 == <<"e", "d", "i", "t", "i", "o", "n", "2", "0", "1", "5">>
m_edition2018 == <<"e", "d", "i", "t", "i", "o", "n", "2", "0", "1", "8">>
m_compile_fail == <<"c", "o", "m", "p", "i", "l", "e", "_", "f", "a", "i", "l">>
m_should_panic == <<"s", "h", "o", "u", "l", "d", "_", "p", "a", "n", "i", "c">>

\* str::contains
Contains(s, pat) == FindStr(s, pat) # 0

\* The directives written, each one line of a file.
d_edition2015 == "// compile-flags: --edition 2015"
d_edition2018 == "// compile-flags: --edition 2018"
d_check_fail == "// rmc-check-fail"
d_verify_fail == "// rmc-verify-fail"
d_unwind == "// cbmc-flags: --unwind 1 --unwinding-assertions"

\* prepend_text on a file's lines: format!("{}\n{}", text, code)
prepend_text(code, text) == <<text>> \o code

\* A faulty annotation that writes the edition directive last.
annotate_edition_last(code, line) ==
    LET c1 == IF Contains(line, m_compile_fail) THEN prepend_text(code, d_check_fail) ELSE code
        c2 == IF Contains(line, m_should_panic) THEN prepend_text(c1, d_verify_fail) ELSE c1
    IN IF Contains(line, m_edition2015) THEN prepend_text(c2, d_edition2015)
       ELSE prepend_text(c2, d_edition2018)

\* Lines 171-184: the prepends made for one example, given the line that
\* opens its code block.
annotate(code, line) ==
    LET c1 == IF Contains(line, m_edition2015) THEN prepend_text(code, d_edition2015)
              ELSE prepend_text(code, d_edition2018)
        c2 == IF Contains(line, m_compile_fail) THEN prepend_text(c1, d_check_fail) ELSE c1
    IN IF Contains(line, m_should_panic) THEN prepend_text(c2, d_verify_fail) ELSE c2

\* Lines 188-213.
loop_tests ==
    << <<"src", "test", "ref", "Appendices", "Glossary", "263.rs">>,
       <<"src", "test", "ref", "Linkage", "190.rs">>,
       <<"src", "test", "ref", "Statements and expressions", "Expressions",
         "Loop expressions", "133.rs">>,
       <<"src", "test", "ref", "Statements and expressions", "Expressions",
         "Method call expressions", "10.rs">> >>

(* Inputs: a chapter with two examples *)

s_fence == <<"~", "~", "~", "r", "u", "s", "t">>
s_prose == <<"A", " ", "m", "e", "t", "h", "o", "d", " ", "c", "a", "l", "l", ".">>

\* The opening line of a code block carrying the given markers.
RECURSIVE Fence(_)
Fence(markers) ==
    IF markers = <<>> THEN s_fence
    ELSE Fence(Front(markers)) \o <<",">> \o Last(markers)

MarkerLists ==
    {e \o c \o p : e \in {<<>>, <<m_edition2015>>, <<m_edition2018>>},
                   c \in {<<>>, <<m_compile_fail>>},
                   p \in {<<>>, <<m_should_panic>>}}
FenceLines == {Fence(ms) : ms \in MarkerLists}

\* The chapter: ten lines, with examples that open on lines 3 and 10.
Chapter(fa, fb) ==
    [i \in 1..10 |-> IF i = 3 THEN fa ELSE IF i = 10 THEN fb ELSE s_prose]

ChapterPath == <<"src", "doc", "reference", "src", "expressions", "method-call-expr.md">>
ChapterDir == <<"src", "test", "ref", "Statements and expressions", "Expressions",
                "Method call expressions">>
ExampleA == [path |-> ChapterPath, line |-> 3, to |-> Append(ChapterDir, "3.rs")]
ExampleB == [path |-> ChapterPath, line |-> 10, to |-> Append(ChapterDir, "10.rs")]

\* What rustdoc extracted for an example.
OrigCode == <<"fn main() {", "}">>

LoopTestSet == {loop_tests[i] : i \in 1..Len(loop_tests)}

AnnInit ==
    /\ LogIdle /\ MergeIdle /\ PathIdle /\ HierIdle /\ ExIdle
    /\ \E fa \in FenceLines, fb \in FenceLines : amd = Chapter(fa, fb)
    /\ amap \in SUBSET {ExampleA, ExampleB}
    /\ aleft = amap
    /\ aloop = 0
    /\ \E present \in SUBSET LoopTestSet :
        afs = [f \in present \cup {e.to : e \in amap} |-> OrigCode]
    /\ astatus = "running"

\* Lines 165-185: one iteration of the loop over `map`.
AnnExample ==
    /\ astatus = "running"
    /\ \E e \in aleft :
        /\ aleft' = aleft \ {e}
        /\ afs' = [afs EXCEPT ![e.to] = annotate(afs[e.to], amd[e.line])]
    /\ UNCHANGED <<amd, amap, aloop, astatus, logVars, mergeVars, pathVars, hierVars, exVars>>

\* Lines 215-219: one iteration of the loop over loop_tests.
AnnLoopTest ==
    /\ astatus = "running"
    /\ aleft = {}
    /\ aloop < Len(loop_tests)
    /\ loop_tests[aloop + 1] \in DOMAIN afs
    /\ aloop' = aloop + 1
    /\ afs' = [afs EXCEPT ![loop_tests[aloop + 1]] = <<d_unwind>> \o @]
    /\ UNCHANGED <<amd, amap, aleft, astatus, logVars, mergeVars, pathVars, hierVars, exVars>>

\* Line 216: the file of a loop test does not exist.
AnnLoopPanic ==
    /\ astatus = "running"
    /\ aleft = {}
    /\ aloop < Len(loop_tests)
    /\ loop_tests[aloop + 1] \notin DOMAIN afs
    /\ astatus' = "panic"
    /\ UNCHANGED <<amd, amap, aleft, aloop, afs, logVars, mergeVars, pathVars, hierVars, exVars>>

AnnReturn ==
    /\ astatus = "running"
    /\ aleft = {}
    /\ aloop = Len(loop_tests)
    /\ astatus' = "done"
    /\ UNCHANGED <<amd, amap, aleft, aloop, afs, logVars, mergeVars, pathVars, hierVars, exVars>>

AnnNext == AnnExample \/ AnnLoopTest \/ AnnLoopPanic \/ AnnReturn

SpecAnnotate == AnnInit /\ [][AnnNext]_vars

\* The markers a code block's opening line was written with.
MarkersOf(line) == CHOOSE ms \in MarkerLists : Fence(ms) = line
HasMarker(line, m) == \E i \in 1..Len(MarkersOf(line)) : MarkersOf(line)[i] = m

\* The directives claimed for an opening line, in final file order.
ClaimedDirectives(line) ==
    (IF HasMarker(line, m_should_panic) THEN <<d_verify_fail>> ELSE <<>>)
    \o (IF HasMarker(line, m_compile_fail) THEN <<d_check_fail>> ELSE <<>>)
    \o (IF HasMarker(line, m_edition2015) THEN <<d_edition2015>> ELSE <<d_edition2018>>)

\* Whether the second loop has already written to path f.
UnwindWritten(f) == \E i \in 1..aloop : loop_tests[i] = f

\* A file without the unwind directive the second loop put on top of it.
BelowUnwind(f) == IF UnwindWritten(f) THEN Tail(afs[f]) ELSE afs[f]

\* C8: once the first loop has visited an example, its file holds the
\* verify-fail directive if should_panic is on the opening line, then the
\* check-fail directive if compile_fail is, then exactly one edition directive
\* (2015 if edition2015 is on the line, 2018 otherwise), then the extracted
\* code unchanged; only the unwind directive of a listed loop test is ever put
\* above them.
C8_DirectivesInOrder ==
    \A e \in amap \ aleft :
        /\ BelowUnwind(e.to) = ClaimedDirectives(amd[e.line]) \o OrigCode
        /\ UnwindWritten(e.to) => Head(afs[e.to]) = d_unwind

\* C8 witness: the example of line 3 opens with edition2015 and compile_fail
\* and has been visited: two directives, check-fail above the edition.
C8_Witness ==
    /\ ExampleA \in amap \ aleft
    /\ amd[ExampleA.line] = Fence(<<m_edition2015, m_compile_fail>>)
    /\ afs[ExampleA.to] = <<d_check_fail, d_edition2015>> \o OrigCode
    /\ astatus = "done"

====
